---- MODULE Spec2Model ----
(***************************************************************************)
(* bookgeo: mention aggregation and geographic reconciliation.             *)
(*                                                                         *)
(* The specifications share   the variables of this module:                *)
(*   SpecSeg   the Segmenter (_chunk_text / _snap_end) on bounded texts,   *)
(*   SpecSnap  one call of _snap_end, for any look-ahead budget,           *)
(*   SpecConf  geocode_confidence on bounded tag lists,                    *)
(*   SpecCli   the commands run, run-agent and run-llm around a run,       *)
(*   Spec      one run of the pipeline (run_pipeline_llm, run_pipeline,    *)
(*             run_agent) against nondeterministic oracles.                *)
(* A string is a sequence of one-character strings, so that lower(),       *)
(* strip(), slicing and concatenation are computed as the code does.       *)
(***************************************************************************)
EXTENDS Integers, Sequences, FiniteSets, TLC

VARIABLES
    \* ---- Segmenter (_chunk_text) ----
    text,           \* the document
    chunk_chars,    \* window size
    overlap_chars,  \* requested overlap
    start,          \* start of the next window
    idx,            \* index of the next window
    chunks,         \* windows emitted so far
    seg_pc,         \* "idle" | "loop" | "done" | "snap" | "snapped"
    max_extra,      \* look-ahead budget of a call to _snap_end
    snapped,        \* what that call returned
    \* ---- geocode_confidence ----
    conf_result,    \* the oracle result to classify
    conf_out,       \* the confidence returned
    conf_pc,        \* "idle" | "call" | "done"
    \* ---- one run of the pipeline ----
    entry,              \* "run_pipeline_llm" | "run_pipeline" | "run_agent"
    config,             \* the Config of the run
    pc,                 \* position of the run
    error,              \* the exception that ended the run, if any
    stages,             \* stages of the run completed so far
    language,           \* the language resolve_language returned
    llm_calls,          \* chat completion requests made so far
    n_items,            \* items the extraction backend in progress has produced
    accepted,           \* the Mentions the aggregator accepted, in order
    mentions,           \* candidate mapping: a sequence of [key, m_list]
    real_places,        \* real list of the run
    fictional_places,   \* fictional list of the run
    gi,                 \* the group _mentions_to_places is at
    resolved,           \* what _mentions_to_places returned
    geo_calls,          \* geocoding calls answered so far
    geo_response,       \* the last geocoding response of the stage in progress
    dominant,           \* dominant country, <<>> for None
    ri,                 \* places _reconcile_countries has handled
    reconciled,         \* its local lists
    updated_fictional,
    hard_outliers,
    outliers,           \* outlier list of the run
    judge_calls,        \* calls to the outlier judge
    judge_reply,        \* how the last call to the judge ended
    written,            \* what _write_outputs was given
    reported            \* the counts the command printed

segVars == <<text, chunk_chars, overlap_chars, start, idx, chunks, seg_pc,
             max_extra, snapped>>
confVars == <<conf_result, conf_out, conf_pc>>
extractVars == <<language, llm_calls, n_items, accepted, mentions>>
resolveVars == <<real_places, fictional_places, gi, resolved>>
geoVars == <<geo_calls, geo_response>>
reconcileVars == <<dominant, ri, reconciled, updated_fictional, hard_outliers>>
reviewVars == <<outliers, judge_calls, judge_reply>>
pipeVars == <<entry, config, pc, error, stages, extractVars, resolveVars, geoVars,
              reconcileVars, reviewVars, written, reported>>

vars == <<segVars, confVars, pipeVars>>

(***************************************************************************)
(* Bounds                                                                  *)
(***************************************************************************)
MaxLen == 5
MaxWindow == 3
MaxOverlap == 3
MaxTags == 3
MaxItems == 3
MaxCap == 3
MaxDoc == 2
PipeChunkChars == 1
MaxPlaces == 4
MaxExtra == 2

NoValue == "<none>"

(***************************************************************************)
(* Helpers                                                                 *)
(***************************************************************************)
Min(a, b) == IF a < b THEN a ELSE b
Max(a, b) == IF a > b THEN a ELSE b
SetMin(S) == CHOOSE x \in S : \A y \in S : x <= y
SetMax(S) == CHOOSE x \in S : \A y \in S : x >= y

SeqsUpTo(S, n) == UNION {[1..k -> S] : k \in 0..n}

Range(f) == {f[i] : i \in DOMAIN f}

\* Python's s[a:b]: negative indices count from the end, both are clamped.
SliceIndex(i, n) == IF i < 0 THEN Max(0, i + n) ELSE Min(i, n)
Slice(s, a, b) == SubSeq(s, SliceIndex(a, Len(s)) + 1, SliceIndex(b, Len(s)))

(***************************************************************************)
(* Segmenter: src/bookgeo/llm_extract.py                                   *)
(***************************************************************************)
NL == "\n"
Chars == {"a", ".", " ", NL}
IsSpace(c) == c \in {" ", NL}
IsTerminator(c) == c \in {".", "!", "?"}

SnapMaxExtra == 300

\* re.search(r"\n\s*\n", window).end(), or -1 without a match: the leftmost
\* newline that starts a match, the greedy \s* taking the longest run.
ParagraphBreakEnd(window) ==
    LET Ends(i) == {j \in (i + 1)..Len(window) :
                       /\ window[j] = NL
                       /\ \A k \in (i + 1)..(j - 1) : IsSpace(window[k])}
        Starts == {i \in 1..Len(window) : window[i] = NL /\ Ends(i) # {}}
    IN  IF Starts = {} THEN -1 ELSE SetMax(Ends(SetMin(Starts)))

\* re.search(r"[.!?]\s", window).end(), or -1 without a match.
SentenceEnd(window) ==
    LET Starts == {i \in 1..(Len(window) - 1) :
                      IsTerminator(window[i]) /\ IsSpace(window[i + 1])}
    IN  IF Starts = {} THEN -1 ELSE SetMin(Starts) + 1

\* Mutant: the sentence end preferred to the paragraph break.
_snap_end_SentenceFirst(t, s, end, extra) ==
    LET hard_end == Min(Len(t), end + extra)
        window == Slice(t, end, hard_end)
    IN  IF SentenceEnd(window) # -1 THEN end + SentenceEnd(window)
        ELSE IF ParagraphBreakEnd(window) # -1 THEN end + ParagraphBreakEnd(window)
        ELSE Min(Len(t), end)

_snap_end(t, s, end, extra) ==
    LET hard_end == Min(Len(t), end + extra)
        window == Slice(t, end, hard_end)
    IN  IF ParagraphBreakEnd(window) # -1 THEN end + ParagraphBreakEnd(window)
        ELSE IF SentenceEnd(window) # -1 THEN end + SentenceEnd(window)
        ELSE Min(Len(t), end)

\* Mutant: the overlap is added to the step instead of subtracted.
ChunkStepSize_Added(cc, oc) == Max(1, cc + Max(0, oc))

\* Mutant: the step is not floored to 1.
ChunkStepSize_Unclamped(cc, oc) == cc - Max(0, oc)

ChunkStepSize(cc, oc) == Max(1, cc - Max(0, oc))

RawEnd(t, s, cc) == Min(Len(t), s + cc)

ChunkEnd(t, s, cc) == _snap_end(t, s, RawEnd(t, s, cc), SnapMaxExtra)

\* `if not text: return chunks`, or the while condition is false.
ChunkReturn ==
    /\ seg_pc = "loop"
    /\ (text = <<>> \/ ~(start < Len(text)))
    /\ seg_pc' = "done"
    /\ UNCHANGED <<text, chunk_chars, overlap_chars, start, idx, chunks,
                   max_extra, snapped, confVars, pipeVars>>

\* One iteration of the while loop.
ChunkLoop ==
    /\ seg_pc = "loop"
    /\ text # <<>>
    /\ start < Len(text)
    /\ LET end == ChunkEnd(text, start, chunk_chars)
       IN  /\ chunks' = Append(chunks, [idx |-> idx, start |-> start, end |-> end,
                                        chunk |-> Slice(text, start, end)])
           /\ idx' = idx + 1
           /\ IF end >= Len(text)
              THEN seg_pc' = "done" /\ start' = start
              ELSE seg_pc' = "loop"
                   /\ start' = start + ChunkStepSize(chunk_chars, overlap_chars)
    /\ UNCHANGED <<text, chunk_chars, overlap_chars, max_extra, snapped,
                   confVars, pipeVars>>

\* The call `_snap_end(text, start, raw_end, max_extra)` of one iteration,
\* taken alone and for any look-ahead budget.
Snap ==
    /\ seg_pc = "snap"
    /\ snapped' = _snap_end(text, start, RawEnd(text, start, chunk_chars), max_extra)
    /\ seg_pc' = "snapped"
    /\ UNCHANGED <<text, chunk_chars, overlap_chars, start, idx, chunks, max_extra,
                   confVars, pipeVars>>

(***************************************************************************)
(* Confidence classification: src/bookgeo/geocode.py                       *)
(***************************************************************************)
\* dict.get(key, default)
Get(d, k, default) == IF k \in DOMAIN d THEN d[k] ELSE default

\* `x in list`
InList(x, list) == \E i \in 1..Len(list) : list[i] = x

high_types == {"locality", "country", "administrative_area_level_1",
               "administrative_area_level_2", "street_address", "premise",
               "route", "point_of_interest", "park", "establishment"}

\* Mutant: the "political" test placed before the specific set.
geocode_confidence_PoliticalFirst(result) ==
    LET types == Get(result, "types", <<>>)
    IN  IF InList("political", types) THEN "medium"
        ELSE IF \E t \in high_types : InList(t, types) THEN "high"
        ELSE "low"

geocode_confidence(result) ==
    LET types == Get(result, "types", <<>>)
    IN  IF \E t \in high_types : InList(t, types) THEN "high"
        ELSE IF InList("political", types) THEN "medium"
        ELSE "low"

\* Tags an oracle result may carry: the specific ones, "political", another.
PlaceTags == high_types \cup {"political", "natural_feature"}

Classify ==
    /\ conf_pc = "call"
    /\ conf_out' = geocode_confidence(conf_result)
    /\ conf_pc' = "done"
    /\ UNCHANGED <<conf_result, segVars, pipeVars>>

(***************************************************************************)
(* Strings of the pipeline                                                 *)
(***************************************************************************)
\* str.lower() on the letters that occur
LowerChar(c) ==
    IF c = "P" THEN "p" ELSE IF c = "O" THEN "o" ELSE IF c = "B" THEN "b" ELSE c

Lower(s) == [i \in 1..Len(s) |-> LowerChar(s[i])]

\* str.strip()
RECURSIVE LStrip(_)
LStrip(s) == IF s # <<>> /\ IsSpace(Head(s)) THEN LStrip(Tail(s)) ELSE s

RECURSIVE RStrip(_)
RStrip(s) ==
    IF s # <<>> /\ IsSpace(s[Len(s)]) THEN RStrip(SubSeq(s, 1, Len(s) - 1)) ELSE s

Strip(s) == RStrip(LStrip(s))

\* Surface strings the extraction backends may report.
Paris == <<"P", "a">>
paris == <<"p", "a">>
Oz == <<"O", "z">>
Bonn == <<"B", "o">>
Blank == <<" ">>
PaddedOz == <<" ", "O", "z">>

LLMNames == {Paris, paris, Oz, Bonn, Blank, PaddedOz}
NERNames == {Paris, paris, Oz, Bonn}

\* Entity labels of the NER model: the ones kept, and one that is not.
LOCATION_LABELS == {"GPE", "LOC", "FAC", "ORG"}
NERLabels == {"GPE", "PERSON"}

\* Country labels.
France == <<"F", "R">>
Germany == <<"D", "E">>

(***************************************************************************)
(* The geocoding oracle: src/bookgeo/geocode.py                            *)
(***************************************************************************)
\* Results the oracle may put in a response.  The first is a locality in
\* France, its country component second; the second is tagged "political"
\* only, in Germany, its country component carrying a short name only; the
\* third has neither a formatted name nor address components.
ResultFrance ==
    [formatted_address |-> <<"P", ",", "F">>,
     types |-> <<"locality", "political">>,
     geometry |-> [location |-> [lat |-> 48, lng |-> 2]],
     address_components |->
        << [types |-> <<"locality", "political">>, long_name |-> Paris],
           [types |-> <<"country", "political">>, long_name |-> France,
            short_name |-> France] >>]

ResultGermany ==
    [formatted_address |-> <<"B", ",", "D">>,
     types |-> <<"political">>,
     geometry |-> [location |-> [lat |-> 50, lng |-> 7]],
     address_components |->
        << [types |-> <<"country", "political">>, short_name |-> Germany] >>]

ResultBare ==
    [types |-> <<"natural_feature">>,
     geometry |-> [location |-> [lat |-> 0, lng |-> 0]]]

GeoResults == {ResultFrance, ResultGermany, ResultBare}

\* Responses of the geocoding service that parse as JSON objects.
GeoResponses ==
    {[status |-> "OK", results |-> <<r>>] : r \in GeoResults}
        \cup {[status |-> "ZERO_RESULTS", results |-> <<>>],
              [status |-> "OK", results |-> <<>>],
              [status |-> "UNKNOWN_ERROR", results |-> <<ResultFrance>>]}

\* Ways requests.get / raise_for_status / response.json() raise.
GeoFailures == {"Timeout", "HTTPError", "JSONDecodeError"}

\* An optional value is a sequence of length 0 (None) or 1.
None == <<>>
Some(x) == <<x>>

\* Mutant: the status of the response is not looked at.
geocode_place_IgnoreStatus(response) ==
    IF Get(response, "results", <<>>) = <<>> THEN None
    ELSE Some(response.results[1])

\* geocode_place, after the request has been answered with `response`.
geocode_place(response) ==
    IF Get(response, "status", NoValue) # "OK" \/ Get(response, "results", <<>>) = <<>>
    THEN None
    ELSE Some(response.results[1])

\* geocode_candidate: the result and the confidence or the reason.
geocode_candidate(response) ==
    LET result == geocode_place(response)
    IN  IF result = None THEN <<None, "no geocode result">>
        ELSE <<result, geocode_confidence(result[1])>>

(***************************************************************************)
(* Extraction and aggregation: src/bookgeo/llm_extract.py, ner.py          *)
(***************************************************************************)
IsLLM == entry = "run_pipeline_llm"

\* sum(len(v) for v in mentions.values())
RECURSIVE TotalMentions(_)
TotalMentions(ms) ==
    IF ms = <<>> THEN 0 ELSE Len(Head(ms).m_list) + TotalMentions(Tail(ms))

\* Mutant: a new key is put before the keys seen so far.
AddMention_NewKeyFirst(ms, key, m) ==
    IF \E i \in 1..Len(ms) : ms[i].key = key
    THEN [i \in 1..Len(ms) |->
             IF ms[i].key = key
             THEN [ms[i] EXCEPT !.m_list = Append(@, m)]
             ELSE ms[i]]
    ELSE <<[key |-> key, m_list |-> <<m>>]>> \o ms

\* mentions[key].append(m) on a defaultdict(list): keys keep first-seen order.
AddMention(ms, key, m) ==
    IF \E i \in 1..Len(ms) : ms[i].key = key
    THEN [i \in 1..Len(ms) |->
             IF ms[i].key = key
             THEN [ms[i] EXCEPT !.m_list = Append(@, m)]
             ELSE ms[i]]
    ELSE Append(ms, [key |-> key, m_list |-> <<m>>])

\* Language codes; "" is what detect_language uses for blank text.
SUPPORTED_LANGS == {"en", "es"}

\* The two messages of UnsupportedLanguageError, with the code they quote.
DetectedUnsupported(code) ==
    "UnsupportedLanguageError: Detected language '" \o code \o "' is not supported."
ProvidedUnsupported(code) ==
    "UnsupportedLanguageError: Language '" \o code \o "' is not supported."
LanguageErrors ==
    {DetectedUnsupported(c) : c \in {"", "fr"}} \cup {ProvidedUnsupported("fr")}

\* detect_language; `detected` is what langdetect answers for the text.
\* The language code, or the error raised.
detect_language(t, detected) ==
    LET code == IF Strip(t) # <<>> THEN detected ELSE ""
    IN  IF code \notin SUPPORTED_LANGS THEN DetectedUnsupported(code) ELSE code

\* resolve_language; `provided` is the optional --lang argument.
resolve_language(t, provided, detected) ==
    IF provided # None
    THEN IF provided[1] \notin SUPPORTED_LANGS THEN ProvidedUnsupported(provided[1])
         ELSE provided[1]
    ELSE detect_language(t, detected)

\* _chunk_text as a function: the windows its loop emits from `s` on.
RECURSIVE ChunksFrom(_, _, _, _, _)
ChunksFrom(t, cc, oc, s, i) ==
    IF ~(s < Len(t)) THEN <<>>
    ELSE LET end == ChunkEnd(t, s, cc)
             c == [idx |-> i, start |-> s, end |-> end, chunk |-> Slice(t, s, end)]
         IN  IF end >= Len(t) THEN <<c>>
             ELSE <<c>> \o ChunksFrom(t, cc, oc, s + ChunkStepSize(cc, oc), i + 1)

_chunk_text(t, cc, oc) == IF t = <<>> THEN <<>> ELSE ChunksFrom(t, cc, oc, 0, 0)

\* `_chunk_text(text, chunk_chars, overlap_chars=350)` in extract_locations_llm
LLMOverlap == 350
Windows == _chunk_text(text, chunk_chars, LLMOverlap)

\* `sum(...) >= config.max_mentions`, lines 290 and 293
MentionCapReached(ms) == TotalMentions(ms) >= config.max_mentions

\* run_pipeline_llm up to the chunk loop of extract_locations_llm (the key
\* check, then resolve_language); run_pipeline and run_agent up to
\* extract_locations (resolve_language).
Begin(provided, detected) ==
    /\ pc = "start"
    /\ IF IsLLM /\ ~config.openai_api_key
       THEN /\ pc' = "raised"
            /\ error' = "RuntimeError: OPENAI_API_KEY is required"
            /\ language' = language
       ELSE IF resolve_language(text, provided, detected) \in LanguageErrors
       THEN /\ pc' = "raised"
            /\ error' = resolve_language(text, provided, detected)
            /\ language' = language
       ELSE /\ pc' = "extract"
            /\ error' = error
            /\ language' = resolve_language(text, provided, detected)
    /\ UNCHANGED <<entry, config, stages, llm_calls, n_items, accepted, mentions, resolveVars,
                   geoVars, reconcileVars, reviewVars, written, segVars, confVars, reported>>

\* _run_llm_chunk answers for the next window; its items follow.
LLMCall ==
    /\ pc = "extract"
    /\ IsLLM
    /\ llm_calls < Len(Windows)
    /\ llm_calls' = llm_calls + 1
    /\ pc' = "items"
    /\ UNCHANGED <<entry, config, stages, error, language, n_items, accepted, mentions,
                   resolveVars, geoVars, reconcileVars, reviewVars, written,
                   segVars, confVars, reported>>

\* The chat completion request of the next window raises: _run_llm_chunk,
\* lines 223-229; nothing catches it.
LLMFails ==
    /\ pc = "extract"
    /\ IsLLM
    /\ llm_calls < Len(Windows)
    /\ llm_calls' = llm_calls + 1
    /\ pc' = "raised"
    /\ error' = "LLMRequestError"
    /\ UNCHANGED <<entry, config, stages, language, n_items, accepted, mentions, resolveVars,
                   geoVars, reconcileVars, reviewVars, written, segVars, confVars, reported>>

\* One item of an LLM response: extract_locations_llm, lines 263-291.  The
\* break of line 291 is followed by the one of line 294.
LLMItem(raw_name) ==
    /\ pc = "items"
    /\ n_items < MaxItems
    /\ LET name == Strip(raw_name)
           m == [text |-> name, item |-> Len(accepted) + 1, label |-> "LLM"]
       IN  IF name = <<>>
           THEN /\ n_items' = n_items + 1
                /\ UNCHANGED <<accepted, mentions, pc, stages>>
           ELSE /\ accepted' = Append(accepted, m)
                /\ mentions' = AddMention(mentions, Lower(name), m)
                /\ IF MentionCapReached(mentions')
                   THEN /\ pc' = "resolve"
                        /\ stages' = Append(stages, "extract")
                        /\ n_items' = 0
                   ELSE /\ pc' = pc
                        /\ stages' = stages
                        /\ n_items' = n_items + 1
    /\ UNCHANGED <<entry, config, error, language, llm_calls, resolveVars, geoVars,
                   reconcileVars, reviewVars, written, segVars, confVars, reported>>

\* The items of the window are exhausted: the check of line 293.
LLMItemsEnd ==
    /\ pc = "items"
    /\ IF MentionCapReached(mentions)
       THEN pc' = "resolve" /\ stages' = Append(stages, "extract") /\ n_items' = 0
       ELSE pc' = "extract" /\ stages' = stages /\ n_items' = n_items
    /\ UNCHANGED <<entry, config, error, language, llm_calls, accepted, mentions,
                   resolveVars, geoVars,
                   reconcileVars, reviewVars, written, segVars, confVars, reported>>

\* One entity of the NER backend: extract_locations, lines 50-64.
NERItem(ent_text, label) ==
    /\ pc = "extract"
    /\ ~IsLLM
    /\ text # <<>>
    /\ n_items < MaxItems
    /\ n_items' = n_items + 1
    /\ LET m == [text |-> ent_text, item |-> Len(accepted) + 1, label |-> label]
       IN  IF label \notin LOCATION_LABELS
           THEN UNCHANGED <<accepted, mentions>>
           ELSE /\ accepted' = Append(accepted, m)
                /\ mentions' = AddMention(mentions, Lower(ent_text), m)
    /\ UNCHANGED <<entry, config, stages, pc, error, language, llm_calls, resolveVars,
                   geoVars, reconcileVars, reviewVars, written, segVars, confVars, reported>>

\* The windows are exhausted.
ExtractReturn ==
    /\ pc = "extract"
    /\ IsLLM => ~(llm_calls < Len(Windows))
    /\ pc' = "resolve"
    /\ stages' = Append(stages, "extract")
    /\ n_items' = 0
    /\ UNCHANGED <<entry, config, error, language, llm_calls, accepted, mentions,
                   resolveVars, geoVars,
                   reconcileVars, reviewVars, written, segVars, confVars, reported>>

(***************************************************************************)
(* Resolution Engine: _mentions_to_places, geocode_locations_node          *)
(***************************************************************************)
FictionalPlace(original_name, m_list, reason) ==
    [original_name |-> original_name, mentions |-> m_list, reason |-> reason]

\* A RealPlace built from an oracle result; `fallback` names the place
\* when the result has no formatted_address.
RealPlace(original_name, fallback, m_list, confidence, result) ==
    [original_name |-> original_name,
     normalized_name |-> Get(result, "formatted_address", fallback),
     latitude |-> result.geometry.location.lat,
     longitude |-> result.geometry.location.lng,
     mentions |-> m_list,
     confidence |-> confidence,
     raw_geocode |-> result]

\* Mutant: the cap is not looked at.
CapReached_Never == FALSE

\* Mutant: the cap is compared with > instead of >=.
CapReached_OffByOne == Len(real_places) + Len(fictional_places) > config.max_mentions

CapReached == Len(real_places) + Len(fictional_places) >= config.max_mentions

AfterResolve == IF IsLLM THEN "reconcile" ELSE "write"

ResolveReturns ==
    /\ resolved' = [real |-> real_places, fictional |-> fictional_places]
    /\ pc' = AfterResolve
    /\ stages' = Append(stages, "resolve")
    /\ UNCHANGED <<entry, config, error, extractVars, real_places, fictional_places,
                   gi, geoVars, reconcileVars, reviewVars, written, segVars, confVars, reported>>

\* The loop has gone through every group.
ResolveExhausted ==
    /\ pc = "resolve"
    /\ gi > Len(mentions)
    /\ ResolveReturns

\* `if len(real_places) + len(fictional_places) >= config.max_mentions: break`
ResolveCapBreak ==
    /\ pc = "resolve"
    /\ gi <= Len(mentions)
    /\ CapReached
    /\ ResolveReturns

\* config.ensure_api_key() raises inside the first geocode_place.
ResolveNoKey ==
    /\ pc = "resolve"
    /\ gi <= Len(mentions)
    /\ ~CapReached
    /\ ~config.google_maps_api_key
    /\ pc' = "raised"
    /\ error' = "RuntimeError: GOOGLE_MAPS_API_KEY is required"
    /\ UNCHANGED <<entry, config, stages, extractVars, resolveVars, geoVars,
                   reconcileVars, reviewVars, written, segVars, confVars, reported>>

\* The geocoding request of the group raises; nothing catches it.
ResolveOracleFails(failure) ==
    /\ pc = "resolve"
    /\ gi <= Len(mentions)
    /\ ~CapReached
    /\ config.google_maps_api_key
    /\ geo_calls' = Append(geo_calls, [stage |-> "resolve", query |-> mentions[gi].key,
                                       held |-> Len(real_places) + Len(fictional_places),
                                       answered |-> FALSE, result |-> None])
    /\ pc' = "raised"
    /\ error' = failure
    /\ UNCHANGED <<entry, config, stages, extractVars, resolveVars, geo_response,
                   reconcileVars, reviewVars, written, segVars, confVars, reported>>

\* The geocoding request of the group is answered.
ResolveGroup(response) ==
    /\ pc = "resolve"
    /\ gi <= Len(mentions)
    /\ ~CapReached
    /\ config.google_maps_api_key
    /\ LET key == mentions[gi].key
           m_list == mentions[gi].m_list
           answer == geocode_candidate(response)
           result == answer[1]
           confidence_or_reason == answer[2]
       IN  /\ geo_calls' = Append(geo_calls, [stage |-> "resolve", query |-> key,
                                              held |-> Len(real_places) + Len(fictional_places),
                                              answered |-> TRUE, result |-> result])
           /\ geo_response' = response
           /\ IF result = None
              THEN /\ fictional_places' = Append(fictional_places,
                          FictionalPlace(m_list[1].text, m_list, confidence_or_reason))
                   /\ real_places' = real_places
              ELSE /\ real_places' = Append(real_places,
                          RealPlace(m_list[1].text, key, m_list,
                                    confidence_or_reason, result[1]))
                   /\ fictional_places' = fictional_places
    /\ gi' = gi + 1
    /\ UNCHANGED <<entry, config, stages, pc, error, extractVars, resolved,
                   reconcileVars, reviewVars, written, segVars, confVars, reported>>

(***************************************************************************)
(* Country Reconciler: src/bookgeo/llm_pipeline.py                         *)
(***************************************************************************)
\* The first address component tagged "country": its long name, else its
\* short name; <<>> stands for None and for the empty string alike.
_extract_country_from_geocode(place) ==
    LET comps == Get(place.raw_geocode, "address_components", <<>>)
        tagged == {i \in 1..Len(comps) : InList("country", Get(comps[i], "types", <<>>))}
    IN  IF tagged = {} THEN <<>>
        ELSE LET comp == comps[SetMin(tagged)]
             IN  IF Get(comp, "long_name", <<>>) # <<>> THEN comp.long_name
                 ELSE Get(comp, "short_name", <<>>)

\* [c for c in (country of each place) if c]
CountryLabels(places) ==
    SelectSeq([i \in 1..Len(places) |-> _extract_country_from_geocode(places[i])],
              LAMBDA c : c # <<>>)

Occurrences(c, labels) == Cardinality({i \in 1..Len(labels) : labels[i] = c})

\* Mutant: among the labels with the most occurrences, the one seen last.
_dominant_country_LastTie(places) ==
    LET labels == CountryLabels(places)
    IN  IF labels = <<>> THEN <<>>
        ELSE LET best == {i \in 1..Len(labels) :
                            \A j \in 1..Len(labels) :
                                Occurrences(labels[j], labels) <= Occurrences(labels[i], labels)}
             IN  labels[SetMax(best)]

\* Counter(countries).most_common(1)[0][0]: among the labels with the most
\* occurrences, the one inserted first.
_dominant_country(places) ==
    LET labels == CountryLabels(places)
    IN  IF labels = <<>> THEN <<>>
        ELSE LET best == {i \in 1..Len(labels) :
                            \A j \in 1..Len(labels) :
                                Occurrences(labels[j], labels) <= Occurrences(labels[i], labels)}
             IN  labels[SetMin(best)]

\* Mutant: a place without a country label counts as a mismatch.
IsOutlier_Unlabelled(place, dom) == _extract_country_from_geocode(place) # dom

\* `country and country != dominant`
IsOutlier(place, dom) ==
    /\ _extract_country_from_geocode(place) # <<>>
    /\ _extract_country_from_geocode(place) # dom

\* Mutant: the query is built from the normalized name.
RetryQuery_Normalized(place, dom) == place.normalized_name \o <<" ">> \o dom

\* f"{p.original_name} {dominant}"
RetryQuery(place, dom) == place.original_name \o <<" ">> \o dom

\* Mutant: the place built from the retry is put at the front.
ReconciledAfterRetry_Front(list, p, retry_result, retry_conf) ==
    IF retry_result # None
    THEN <<RealPlace(p.original_name, p.normalized_name, p.mentions,
                     retry_conf, retry_result[1])>> \o list
    ELSE list

\* The real list after the retry of outlier p: lines 113-126.
ReconciledAfterRetry(list, p, retry_result, retry_conf) ==
    IF retry_result # None
    THEN Append(list, RealPlace(p.original_name, p.normalized_name, p.mentions,
                                retry_conf, retry_result[1]))
    ELSE list

\* Mutant: a demoted place is appended even when the retry succeeded.
FictionalAfterRetry_Always(list, p, retry_result) ==
    Append(list, FictionalPlace(p.original_name, p.mentions, "outlier_country_mismatch"))

\* The fictional list after the retry of outlier p: lines 127-135.
FictionalAfterRetry(list, p, retry_result) ==
    IF retry_result # None
    THEN list
    ELSE Append(list, FictionalPlace(p.original_name, p.mentions,
                                     "outlier_country_mismatch"))

\* _dominant_country, then _reconcile_countries up to its loop.
ReconcileBegin ==
    /\ pc = "reconcile"
    /\ dominant' = _dominant_country(real_places)
    /\ ri' = 1
    /\ reconciled' = <<>>
    /\ hard_outliers' = <<>>
    /\ IF dominant' = <<>>
       THEN /\ updated_fictional' = <<>>
            /\ pc' = "review"
            /\ stages' = Append(stages, "reconcile")
       ELSE /\ updated_fictional' = fictional_places
            /\ pc' = "reconcile_loop"
            /\ stages' = stages
    /\ geo_response' = [status |-> NoValue]
    /\ UNCHANGED <<entry, config, error, extractVars, resolveVars, geo_calls,
                   reviewVars, written, segVars, confVars, reported>>

\* `else: reconciled.append(p)`
ReconcileKeep ==
    /\ pc = "reconcile_loop"
    /\ ri <= Len(real_places)
    /\ ~IsOutlier(real_places[ri], dominant)
    /\ reconciled' = Append(reconciled, real_places[ri])
    /\ ri' = ri + 1
    /\ UNCHANGED <<entry, config, stages, pc, error, extractVars, resolveVars, geoVars,
                   dominant, updated_fictional, hard_outliers,
                   reviewVars, written, segVars, confVars, reported>>

\* The retry of an outlier is answered.
ReconcileRetry(response) ==
    /\ pc = "reconcile_loop"
    /\ ri <= Len(real_places)
    /\ IsOutlier(real_places[ri], dominant)
    /\ LET p == real_places[ri]
           query == RetryQuery(p, dominant)
           answer == geocode_candidate(response)
           retry_result == answer[1]
           retry_conf == answer[2]
       IN  /\ hard_outliers' = Append(hard_outliers, p.normalized_name)
           /\ geo_calls' = Append(geo_calls, [stage |-> "retry", query |-> query,
                                              held |-> Len(reconciled) + Len(updated_fictional),
                                              answered |-> TRUE, result |-> retry_result])
           /\ geo_response' = response
           /\ reconciled' = ReconciledAfterRetry(reconciled, p, retry_result, retry_conf)
           /\ updated_fictional' = FictionalAfterRetry(updated_fictional, p, retry_result)
    /\ ri' = ri + 1
    /\ UNCHANGED <<entry, config, stages, pc, error, extractVars, resolveVars, dominant,
                   reviewVars, written, segVars, confVars, reported>>

\* The retry request raises; nothing catches it.
ReconcileRetryFails(failure) ==
    /\ pc = "reconcile_loop"
    /\ ri <= Len(real_places)
    /\ IsOutlier(real_places[ri], dominant)
    /\ hard_outliers' = Append(hard_outliers, real_places[ri].normalized_name)
    /\ geo_calls' = Append(geo_calls,
                           [stage |-> "retry", query |-> RetryQuery(real_places[ri], dominant),
                            held |-> Len(reconciled) + Len(updated_fictional),
                            answered |-> FALSE, result |-> None])
    /\ pc' = "raised"
    /\ error' = failure
    /\ UNCHANGED <<entry, config, stages, extractVars, resolveVars, geo_response, dominant, ri,
                   reconciled, updated_fictional, reviewVars, written, segVars, confVars, reported>>

\* `return reconciled, updated_fictional, hard_outliers`, assigned by the caller.
ReconcileReturn ==
    /\ pc = "reconcile_loop"
    /\ ri > Len(real_places)
    /\ real_places' = reconciled
    /\ fictional_places' = updated_fictional
    /\ pc' = "review"
    /\ stages' = Append(stages, "reconcile")
    /\ geo_response' = [status |-> NoValue]
    /\ UNCHANGED <<entry, config, error, extractVars, resolved, gi, geo_calls,
                   reconcileVars, reviewVars, written, segVars, confVars, reported>>

(***************************************************************************)
(* Outlier Reviewer: run_pipeline_llm lines 159-167, validator.py          *)
(***************************************************************************)
\* list(set): the members in some order.
Orderings(S) ==
    {q \in [1..Cardinality(S) -> S] : \A i, j \in 1..Cardinality(S) : q[i] = q[j] => i = j}

JudgeEnabled == config.enable_llm_enhancement /\ config.openai_api_key

\* What the judge may answer: a JSON array of names, JSON that is not an
\* array, or text that is not JSON.
JudgeContents ==
    {[kind |-> "list", names |-> ns] :
        ns \in {<<>>, <<ResultFrance.formatted_address>>,
                <<ResultGermany.formatted_address, ResultGermany.formatted_address>>}}
        \cup {[kind |-> "malformed"], [kind |-> "unparseable"]}

\* flag_outliers_langchain, lines 65-77
ParseJudge(content) == IF content.kind = "list" THEN content.names ELSE <<>>

\* `if config.enable_llm_enhancement and config.openai_api_key` is false.
ReviewDisabled ==
    /\ pc = "review"
    /\ ~JudgeEnabled
    /\ outliers' = hard_outliers
    /\ pc' = "write"
    /\ stages' = Append(stages, "review")
    /\ UNCHANGED <<entry, config, error, extractVars, resolveVars, geoVars,
                   reconcileVars, judge_calls, judge_reply, written, segVars, confVars, reported>>

\* flag_outliers_langchain returns [] for an empty real list, without a call.
ReviewNoPlaces ==
    /\ pc = "review"
    /\ JudgeEnabled
    /\ real_places = <<>>
    /\ outliers' \in Orderings(Range(hard_outliers))
    /\ pc' = "write"
    /\ stages' = Append(stages, "review")
    /\ UNCHANGED <<entry, config, error, extractVars, resolveVars, geoVars,
                   reconcileVars, judge_calls, judge_reply, written, segVars, confVars, reported>>

\* The judge answers.
ReviewJudge(content) ==
    /\ pc = "review"
    /\ JudgeEnabled
    /\ real_places # <<>>
    /\ judge_calls' = judge_calls + 1
    /\ judge_reply' = content
    /\ outliers' \in Orderings(Range(hard_outliers) \cup Range(ParseJudge(content)))
    /\ pc' = "write"
    /\ stages' = Append(stages, "review")
    /\ UNCHANGED <<entry, config, error, extractVars, resolveVars, geoVars,
                   reconcileVars, written, segVars, confVars, reported>>

\* The judge call raises: `except Exception: outliers = []`.
ReviewJudgeFails ==
    /\ pc = "review"
    /\ JudgeEnabled
    /\ real_places # <<>>
    /\ judge_calls' = judge_calls + 1
    /\ judge_reply' = [kind |-> "raised"]
    /\ outliers' = <<>>
    /\ pc' = "write"
    /\ stages' = Append(stages, "review")
    /\ UNCHANGED <<entry, config, error, extractVars, resolveVars, geoVars,
                   reconcileVars, written, segVars, confVars, reported>>

\* _write_outputs, then the return.
WriteOutputs ==
    /\ pc = "write"
    /\ written' = [real |-> real_places, fictional |-> fictional_places]
    /\ pc' = "done"
    /\ stages' = Append(stages, "write")
    /\ geo_response' = [status |-> NoValue]
    /\ UNCHANGED <<entry, config, error, extractVars, resolveVars, geo_calls,
                   reconcileVars, reviewVars, segVars, confVars, reported>>

(***************************************************************************)
(* Commands: src/bookgeo/cli.py                                            *)
(***************************************************************************)
\* What the entry point returns to its command: run_pipeline_llm line 169,
\* run_pipeline line 96.
ReturnValue ==
    IF IsLLM THEN <<language, real_places, fictional_places, outliers>>
    ELSE <<real_places, fictional_places>>

\* The state dict run_agent returns.
ResultState == [real_places |-> real_places, fictional_places |-> fictional_places]

UnpackError == "ValueError: too many values to unpack (expected 2)"

\* `real_places, fictional_places = <call>`, then the message with the two
\* lengths: the assignment raises unless the value has two members.
UnpackAndReport(value) ==
    IF Len(value) = 2
    THEN /\ reported' = [real |-> Len(value[1]), fictional |-> Len(value[2])]
         /\ pc' = "reported"
         /\ error' = error
    ELSE /\ reported' = reported
         /\ pc' = "raised"
         /\ error' = UnpackError

\* The command `run`, after run_pipeline has returned.
CommandRun ==
    /\ pc = "done"
    /\ entry = "run_pipeline"
    /\ UnpackAndReport(ReturnValue)
    /\ UNCHANGED <<entry, config, stages, extractVars, resolveVars, geoVars,
                   reconcileVars, reviewVars, written, segVars, confVars>>

\* The command `run-agent`, after run_agent has returned.
CommandRunAgent ==
    /\ pc = "done"
    /\ entry = "run_agent"
    /\ reported' = [real |-> Len(Get(ResultState, "real_places", <<>>)),
                    fictional |-> Len(Get(ResultState, "fictional_places", <<>>))]
    /\ pc' = "reported"
    /\ UNCHANGED <<entry, config, error, stages, extractVars, resolveVars, geoVars,
                   reconcileVars, reviewVars, written, segVars, confVars>>

\* The command `run-llm`, after run_pipeline_llm has returned.
CommandRunLLM ==
    /\ pc = "done"
    /\ entry = "run_pipeline_llm"
    /\ UnpackAndReport(ReturnValue)
    /\ UNCHANGED <<entry, config, stages, extractVars, resolveVars, geoVars,
                   reconcileVars, reviewVars, written, segVars, confVars>>

(***************************************************************************)
(* Specifications                                                          *)
(***************************************************************************)
SegIdle ==
    /\ text = <<>>
    /\ chunk_chars = 0
    /\ overlap_chars = 0
    /\ start = 0
    /\ idx = 0
    /\ chunks = <<>>
    /\ seg_pc = "idle"
    /\ max_extra = SnapMaxExtra
    /\ snapped = NoValue

ConfIdle ==
    /\ conf_result = [types |-> <<>>]
    /\ conf_out = NoValue
    /\ conf_pc = "idle"

PipeFresh ==
    /\ error = NoValue
    /\ stages = <<>>
    /\ language = NoValue
    /\ llm_calls = 0
    /\ n_items = 0
    /\ accepted = <<>>
    /\ mentions = <<>>
    /\ real_places = <<>>
    /\ fictional_places = <<>>
    /\ gi = 1
    /\ resolved = [real |-> <<>>, fictional |-> <<>>]
    /\ geo_calls = <<>>
    /\ geo_response = [status |-> NoValue]
    /\ dominant = <<>>
    /\ ri = 1
    /\ reconciled = <<>>
    /\ updated_fictional = <<>>
    /\ hard_outliers = <<>>
    /\ outliers = <<>>
    /\ judge_calls = 0
    /\ judge_reply = [kind |-> NoValue]
    /\ written = [real |-> <<>>, fictional |-> <<>>]
    /\ reported = NoValue

PipeIdle ==
    /\ entry = NoValue
    /\ config = [max_mentions |-> 0, google_maps_api_key |-> FALSE,
                 openai_api_key |-> FALSE, enable_llm_enhancement |-> FALSE]
    /\ pc = "idle"
    /\ PipeFresh

InitSeg ==
    /\ ConfIdle
    /\ PipeIdle
    /\ text \in SeqsUpTo(Chars, MaxLen)
    /\ chunk_chars \in (-1)..MaxWindow
    /\ overlap_chars \in (-1)..MaxOverlap
    /\ start = 0
    /\ idx = 0
    /\ chunks = <<>>
    /\ seg_pc = "loop"
    /\ max_extra = SnapMaxExtra
    /\ snapped = NoValue

NextSeg == ChunkReturn \/ ChunkLoop

\* Look-ahead budgets of a call to _snap_end: the small ones cut the region
\* inside the text, SnapMaxExtra is the one _chunk_text passes.
Budgets == (0..MaxExtra) \cup {SnapMaxExtra}

\* _snap_end as the while loop calls it: on a non-empty text, at a start
\* inside it.
InitSnap ==
    /\ ConfIdle
    /\ PipeIdle
    /\ text \in SeqsUpTo(Chars, MaxLen) \ {<<>>}
    /\ chunk_chars \in (-1)..MaxWindow
    /\ overlap_chars = 0
    /\ start \in 0..(Len(text) - 1)
    /\ idx = 0
    /\ chunks = <<>>
    /\ seg_pc = "snap"
    /\ max_extra \in Budgets
    /\ snapped = NoValue

NextSnap == Snap

SpecSnap == InitSnap /\ [][NextSnap]_vars

SpecSeg == InitSeg /\ [][NextSeg]_vars

InitConf ==
    /\ SegIdle
    /\ PipeIdle
    /\ \/ conf_result \in {[types |-> ts] : ts \in SeqsUpTo(PlaceTags, MaxTags)}
       \/ conf_result = [formatted_address |-> <<"x">>]
    /\ conf_out = NoValue
    /\ conf_pc = "call"

NextConf == Classify

SpecConf == InitConf /\ [][NextConf]_vars

Configs ==
    [max_mentions : (-1)..MaxCap, google_maps_api_key : BOOLEAN,
     openai_api_key : BOOLEAN, enable_llm_enhancement : BOOLEAN]

\* The three entry points; the NER ones never read the two LLM settings,
\* which stay at their defaults there.
Entries == {"run_pipeline_llm", "run_pipeline", "run_agent"}

\* Documents of a run: the empty one and one of MaxDoc letters.
PipeTexts == {<<>>, [i \in 1..MaxDoc |-> "a"]}

\* The --lang argument and the answers of langdetect.
LangArgs == {None, Some("en"), Some("fr")}
Detected == {"en", "fr"}

Init ==
    /\ ConfIdle
    /\ text \in PipeTexts
    /\ chunk_chars = PipeChunkChars
    /\ overlap_chars = 0
    /\ start = 0
    /\ idx = 0
    /\ chunks = <<>>
    /\ seg_pc = "idle"
    /\ max_extra = SnapMaxExtra
    /\ snapped = NoValue
    /\ entry \in Entries
    /\ config \in Configs
    /\ entry # "run_pipeline_llm" =>
          ~config.openai_api_key /\ ~config.enable_llm_enhancement
    /\ pc = "start"
    /\ PipeFresh

Next ==
    \/ \E provided \in LangArgs, detected \in Detected : Begin(provided, detected)
    \/ LLMCall
    \/ LLMFails
    \/ \E name \in LLMNames : LLMItem(name)
    \/ LLMItemsEnd
    \/ \E name \in NERNames, label \in NERLabels : NERItem(name, label)
    \/ ExtractReturn
    \/ ResolveExhausted
    \/ ResolveCapBreak
    \/ ResolveNoKey
    \/ \E failure \in GeoFailures : ResolveOracleFails(failure)
    \/ \E response \in GeoResponses : ResolveGroup(response)
    \/ ReconcileBegin
    \/ ReconcileKeep
    \/ \E response \in GeoResponses : ReconcileRetry(response)
    \/ \E failure \in GeoFailures : ReconcileRetryFails(failure)
    \/ ReconcileReturn
    \/ ReviewDisabled
    \/ ReviewNoPlaces
    \/ \E content \in JudgeContents : ReviewJudge(content)
    \/ ReviewJudgeFails
    \/ WriteOutputs

Spec == Init /\ [][Next]_vars

\* A run of run_pipeline_llm at the return of _mentions_to_places, with k
\* candidate groups of one Mention each and an answer of the oracle for each
\* (None, or a result): the states from which reconciliation and review are
\* explored for longer lists.
GroupName(i) == [j \in 1..i |-> "x"]
GroupMention(i) == [text |-> GroupName(i), item |-> i, label |-> "LLM"]
GroupAnswers == {None} \cup {Some(r) : r \in GeoResults}

\* The lists _mentions_to_places builds from the first n groups.
RECURSIVE ResolvedPlaces(_, _)
ResolvedPlaces(n, answers) ==
    IF n = 0 THEN <<>>
    ELSE IF answers[n] = None THEN ResolvedPlaces(n - 1, answers)
    ELSE Append(ResolvedPlaces(n - 1, answers),
                RealPlace(GroupName(n), Lower(GroupName(n)), <<GroupMention(n)>>,
                          geocode_confidence(answers[n][1]), answers[n][1]))

RECURSIVE UnresolvedPlaces(_, _)
UnresolvedPlaces(n, answers) ==
    IF n = 0 THEN <<>>
    ELSE IF answers[n] # None THEN UnresolvedPlaces(n - 1, answers)
    ELSE Append(UnresolvedPlaces(n - 1, answers),
                FictionalPlace(GroupName(n), <<GroupMention(n)>>, "no geocode result"))

InitRecon ==
    /\ ConfIdle
    /\ text = [i \in 1..MaxDoc |-> "a"]
    /\ chunk_chars = PipeChunkChars
    /\ overlap_chars = 0
    /\ start = 0
    /\ idx = 0
    /\ chunks = <<>>
    /\ seg_pc = "idle"
    /\ max_extra = SnapMaxExtra
    /\ snapped = NoValue
    /\ entry = "run_pipeline_llm"
    /\ config \in {[max_mentions |-> MaxPlaces + 1, google_maps_api_key |-> TRUE,
                     openai_api_key |-> TRUE, enable_llm_enhancement |-> e] :
                        e \in BOOLEAN}
    /\ pc = "reconcile"
    /\ error = NoValue
    /\ stages = <<"extract", "resolve">>
    /\ language = "en"
    /\ llm_calls = Len(Windows)
    /\ \E k \in 0..MaxPlaces : \E answers \in [1..k -> GroupAnswers] :
          /\ n_items = 0
          /\ accepted = [i \in 1..k |-> GroupMention(i)]
          /\ mentions = [i \in 1..k |-> [key |-> Lower(GroupName(i)),
                                         m_list |-> <<GroupMention(i)>>]]
          /\ real_places = ResolvedPlaces(k, answers)
          /\ fictional_places = UnresolvedPlaces(k, answers)
          /\ resolved = [real |-> ResolvedPlaces(k, answers),
                         fictional |-> UnresolvedPlaces(k, answers)]
          /\ gi = k + 1
          /\ geo_calls = [i \in 1..k |->
                             [stage |-> "resolve", query |-> Lower(GroupName(i)),
                              held |-> i - 1, answered |-> TRUE,
                              result |-> answers[i]]]
          /\ geo_response = IF k = 0 THEN [status |-> NoValue]
                            ELSE IF answers[k] = None
                            THEN [status |-> "ZERO_RESULTS", results |-> <<>>]
                            ELSE [status |-> "OK", results |-> answers[k]]
    /\ dominant = <<>>
    /\ ri = 1
    /\ reconciled = <<>>
    /\ updated_fictional = <<>>
    /\ hard_outliers = <<>>
    /\ outliers = <<>>
    /\ judge_calls = 0
    /\ judge_reply = [kind |-> NoValue]
    /\ written = [real |-> <<>>, fictional |-> <<>>]
    /\ reported = NoValue

NextRecon ==
    \/ ReconcileBegin
    \/ ReconcileKeep
    \/ \E response \in GeoResponses : ReconcileRetry(response)
    \/ \E failure \in GeoFailures : ReconcileRetryFails(failure)
    \/ ReconcileReturn
    \/ ReviewDisabled
    \/ ReviewNoPlaces
    \/ \E content \in JudgeContents : ReviewJudge(content)
    \/ ReviewJudgeFails
    \/ WriteOutputs

SpecRecon == InitRecon /\ [][NextRecon]_vars

\* A run started from its command.
NextCli == Next \/ CommandRun \/ CommandRunAgent \/ CommandRunLLM

SpecCli == Init /\ [][NextCli]_vars

(***************************************************************************)
(* Confidence properties                                                   *)
(***************************************************************************)
\* The specific set as the claim lists it.
C6_Specific == {"locality", "country", "administrative_area_level_1",
                "administrative_area_level_2", "street_address", "premise",
                "route", "point_of_interest", "park", "establishment"}

C6_Tags == IF "types" \in DOMAIN conf_result THEN Range(conf_result.types) ELSE {}

\* C6: the confidence is one of the three levels and is decided by the set
\* of tags alone: "high" when a specific tag is present (also next to
\* "political"), otherwise "medium" when "political" is present, otherwise
\* "low"; every reordering of the tag list gives the same answer.
C6_ConfidenceBySet ==
    conf_pc = "done" =>
        /\ conf_out \in {"high", "medium", "low"}
        /\ conf_out = (IF C6_Tags \cap C6_Specific # {} THEN "high"
                       ELSE IF "political" \in C6_Tags THEN "medium"
                       ELSE "low")
        /\ "types" \in DOMAIN conf_result =>
              \A perm \in Permutations(DOMAIN conf_result.types) :
                  geocode_confidence(
                      [types |-> [i \in DOMAIN conf_result.types |->
                                     conf_result.types[perm[i]]]]) = conf_out

C6_Witness ==
    /\ conf_pc = "done"
    /\ "types" \in DOMAIN conf_result
    /\ Len(conf_result.types) >= 2
    /\ conf_result.types[1] = "political"
    /\ conf_result.types[2] = "locality"
    /\ conf_out = "high"

(***************************************************************************)
(* Segmenter properties                                                    *)
(***************************************************************************)
LastChunk == chunks[Len(chunks)]

\* Characters that windows i and i+1 have in common.
SharedChars(i) == Min(chunks[i].end, chunks[i + 1].end) - chunks[i + 1].start

\* Snapping moved the end of window i past its hard end.
SnapExtended(i) == chunks[i].end > Min(Len(text), chunks[i].start + chunk_chars)

\* C9: with window > 0 and overlap < window the windows start at 0, leave no
\* gap (each starts at or before the end of the one before it), every
\* consecutive pair shares at least `overlap` characters unless snapping
\* extended the earlier one, and once the sequence is complete the last
\* window ends at the document end and every position is inside a window.
C9_SegmenterCoverage ==
    (chunk_chars > 0 /\ overlap_chars < chunk_chars) =>
        /\ chunks # <<>> => chunks[1].start = 0
        /\ \A i \in 1..(Len(chunks) - 1) :
              /\ chunks[i + 1].start <= chunks[i].end
              /\ SharedChars(i) >= overlap_chars \/ SnapExtended(i)
        /\ \A i \in 1..Len(chunks) :
              chunks[i].chunk = SubSeq(text, chunks[i].start + 1, chunks[i].end)
        /\ (seg_pc = "done" /\ text # <<>>) =>
              /\ chunks # <<>>
              /\ LastChunk.end = Len(text)
              /\ \A p \in 0..(Len(text) - 1) :
                    \E i \in 1..Len(chunks) :
                        chunks[i].start <= p /\ p < chunks[i].end

C9_Witness ==
    /\ seg_pc = "done"
    /\ chunk_chars > 0
    /\ overlap_chars > 0
    /\ overlap_chars < chunk_chars
    /\ Len(chunks) >= 2
    /\ \E i \in 1..(Len(chunks) - 1) : SnapExtended(i)

\* The claimed step and the step the code takes.
ClaimedStep == Max(1, chunk_chars - overlap_chars)
ClampedStep == Max(1, chunk_chars - Max(0, overlap_chars))

SegmenterTerminates(step, windows) ==
    /\ step >= 1
    /\ \A i \in 1..Len(chunks) :
          /\ chunks[i].idx = i - 1
          /\ chunks[i].start = (i - 1) * step
          /\ chunks[i].start < Len(text)
    /\ \A i \in 1..(Len(chunks) - 1) : chunks[i].end < Len(text)
    /\ seg_pc = "done" =>
          /\ text = <<>> => chunks = <<>>
          /\ (text # <<>> /\ chunk_chars \in windows) =>
                chunks # <<>> /\ LastChunk.end = Len(text)

ResolveReturned == pc \in {"reconcile", "reconcile_loop", "review", "write", "done"}
ReconcileReturned == IsLLM /\ pc \in {"review", "write", "done"}
ConfigErrors == {"RuntimeError: OPENAI_API_KEY is required",
                 "RuntimeError: GOOGLE_MAPS_API_KEY is required"}

\* The lists returned by the Resolution Engine, and those returned after
\* country reconciliation, together hold at most `bound` records.
ListsWithin(bound) ==
    /\ ResolveReturned => Len(resolved.real) + Len(resolved.fictional) <= bound
    /\ ReconcileReturned => Len(real_places) + Len(fictional_places) <= bound
    /\ pc = "done" => Len(written.real) + Len(written.fictional) <= bound

\* C1 as stated: for any configured max_mentions the returned lists satisfy
\* len(real_places) + len(fictional_places) <= max_mentions.
C1_Original == ListsWithin(config.max_mentions)

\* C1 as amended: the returned lists satisfy
\* len(real_places) + len(fictional_places) <= max(0, max_mentions).
C1_GlobalCap == ListsWithin(Max(0, config.max_mentions))

C1_Witness ==
    /\ pc = "done"
    /\ IsLLM
    /\ config.max_mentions >= 2
    /\ Len(resolved.real) + Len(resolved.fictional) = config.max_mentions
    /\ Len(real_places) + Len(fictional_places) = config.max_mentions
    /\ Len(fictional_places) > Len(resolved.fictional)

\* Records of `list` that carry the Mentions `m_list`.
Holding(list, m_list) == {j \in 1..Len(list) : list[j].mentions = m_list}

\* Ends of a run that the error taxonomy lets abort: a missing credential,
\* an unsupported language, a failure of the extraction backend.
AllowedAborts == ConfigErrors \cup LanguageErrors \cup {"LLMRequestError"}

\* C2: the run always completes (only a missing credential or a failing
\* extraction backend ends it early), and at its end every candidate group
\* of the aggregator is in exactly one of the final real and fictional lists.
C2_AlwaysClassified ==
    /\ pc = "raised" => error \in AllowedAborts
    /\ pc = "done" =>
          \A g \in 1..Len(mentions) :
              Cardinality(Holding(written.real, mentions[g].m_list))
                  + Cardinality(Holding(written.fictional, mentions[g].m_list)) = 1

\* The inputs of _reconcile_countries and the retries it made.
InReal == resolved.real
InFictional == resolved.fictional
OutlierIdx == {i \in 1..Len(InReal) : IsOutlier(InReal[i], dominant)}
OutlierRank(i) == Cardinality({j \in OutlierIdx : j <= i})
Retries == SelectSeq(geo_calls, LAMBDA c : c.stage = "retry")

\* C3: once reconcile has returned, every input RealPlace whose country is
\* non-empty and differs from the dominant one (1) has its normalized name in
\* hard_outlier_names, (2) was retried exactly once, with the query
\* "<original name> <dominant country>", and (3) is replaced in the real list
\* by a RealPlace built from the retried result with the same original name
\* and Mentions when the retry returned a result, and otherwise is absent
\* from the real list and appended to the fictional list as a FictionalPlace
\* with reason "outlier_country_mismatch".
C3_ReconcilePerPlace ==
    ReconcileReturned =>
        /\ Len(Retries) = Cardinality(OutlierIdx)
        /\ Len(hard_outliers) = Cardinality(OutlierIdx)
        /\ \A i \in OutlierIdx :
              LET p == InReal[i]
                  call == Retries[OutlierRank(i)]
              IN  /\ hard_outliers[OutlierRank(i)] = p.normalized_name
                  /\ call.answered
                  /\ call.query = p.original_name \o <<" ">> \o dominant
                  /\ IF call.result # None
                     THEN /\ \E j \in 1..Len(real_places) :
                                /\ real_places[j].original_name = p.original_name
                                /\ real_places[j].mentions = p.mentions
                                /\ real_places[j].raw_geocode = call.result[1]
                                /\ real_places[j].latitude = call.result[1].geometry.location.lat
                                /\ real_places[j].longitude = call.result[1].geometry.location.lng
                                /\ real_places[j].normalized_name =
                                      (IF "formatted_address" \in DOMAIN call.result[1]
                                       THEN call.result[1].formatted_address
                                       ELSE p.normalized_name)
                          /\ Holding(fictional_places, p.mentions) = {}
                     ELSE /\ \E j \in (Len(InFictional) + 1)..Len(fictional_places) :
                                fictional_places[j] =
                                    [original_name |-> p.original_name,
                                     mentions |-> p.mentions,
                                     reason |-> "outlier_country_mismatch"]
                          /\ Holding(real_places, p.mentions) = {}

\* Three places in France, France and Germany, the German one's retry
\* without a result.
C3_Witness ==
    /\ pc = "done"
    /\ IsLLM
    /\ Len(InReal) = 3
    /\ _extract_country_from_geocode(InReal[1]) = France
    /\ _extract_country_from_geocode(InReal[2]) = France
    /\ _extract_country_from_geocode(InReal[3]) = Germany
    /\ dominant = France
    /\ hard_outliers = <<InReal[3].normalized_name>>
    /\ real_places = <<InReal[1], InReal[2]>>
    /\ Len(fictional_places) = 1
    /\ fictional_places[1].reason = "outlier_country_mismatch"

\* C4: once reconcile has returned, every input RealPlace is held by exactly
\* one output record (of the real list or of the fictional list), every
\* input FictionalPlace is kept, and the two output lists together are as
\* long as the two input lists together.
C4_ReconcileOwnership ==
    ReconcileReturned =>
        /\ \A i \in 1..Len(InReal) :
              Cardinality(Holding(real_places, InReal[i].mentions))
                  + Cardinality(Holding(fictional_places, InReal[i].mentions)) = 1
        /\ Len(fictional_places) >= Len(InFictional)
        /\ SubSeq(fictional_places, 1, Len(InFictional)) = InFictional
        /\ Len(real_places) + Len(fictional_places) = Len(InReal) + Len(InFictional)

C4_Witness ==
    /\ pc = "done"
    /\ IsLLM
    /\ Len(InReal) = 2
    /\ Len(InFictional) = 1
    /\ Len(Retries) = 1
    /\ Retries[1].result # None
    /\ Len(real_places) = 2
    /\ real_places[2] # InReal[2]
    /\ fictional_places = InFictional

\* C5: when no input RealPlace carries a country label, or every one that
\* does has the dominant country, reconcile returns its input lists, an empty
\* hard-outlier list, and issues no geocoding call; its result is consistent
\* again, so a second application finds the same no-op case.
C5_Consistent(places) ==
    \A i \in 1..Len(places) :
        \/ _extract_country_from_geocode(places[i]) = <<>>
        \/ _extract_country_from_geocode(places[i]) = _dominant_country(places)

C5_ReconcileNoOp ==
    (ReconcileReturned /\ C5_Consistent(InReal)) =>
        /\ real_places = InReal
        /\ fictional_places = InFictional
        /\ hard_outliers = <<>>
        /\ Retries = <<>>
        /\ C5_Consistent(real_places)

C5_Witness ==
    /\ pc = "done"
    /\ IsLLM
    /\ C5_Consistent(InReal)
    /\ Len(InReal) = 2
    /\ dominant = France
    /\ _extract_country_from_geocode(InReal[1]) = <<>>
    /\ Len(InFictional) = 1

\* The lists _mentions_to_places is building or has returned.
ResolvedReal == IF pc = "resolve" THEN real_places ELSE resolved.real
ResolvedFictional == IF pc = "resolve" THEN fictional_places ELSE resolved.fictional
ResolveCalls == SelectSeq(geo_calls, LAMBDA c : c.stage = "resolve" /\ c.answered)
NoResultIdx == {k \in 1..Len(ResolveCalls) : ResolveCalls[k].result = None}
ResultIdx == {k \in 1..Len(ResolveCalls) : ResolveCalls[k].result # None}

\* The confidence of a set of tags, as the claims state it.
ConfidenceOfTags(tags) ==
    IF tags \cap C6_Specific # {} THEN "high"
    ELSE IF "political" \in tags THEN "medium"
    ELSE "low"

\* C7: the k-th geocoding answer of the Resolution Engine is for the k-th
\* group in iteration order and yields exactly one record: without a result
\* (status not OK or an empty result list) a FictionalPlace named after the
\* group's first Mention with reason "no geocode result", with a result a
\* RealPlace named after the first Mention, normalized to the formatted name
\* (the candidate key when absent), with the confidence of the result's tags
\* and the raw result; both lists keep the order of the groups.
C7_ResolutionBranch ==
    /\ (pc = "resolve" \/ ResolveReturned) =>
          /\ Len(ResolvedFictional) = Cardinality(NoResultIdx)
          /\ Len(ResolvedReal) = Cardinality(ResultIdx)
          /\ Len(ResolveCalls) <= Len(mentions)
          /\ \A k \in 1..Len(ResolveCalls) :
                LET group == mentions[k]
                    call == ResolveCalls[k]
                IN  /\ call.query = group.key
                    /\ k \in NoResultIdx =>
                          ResolvedFictional[Cardinality({j \in NoResultIdx : j <= k})] =
                              [original_name |-> group.m_list[1].text,
                               mentions |-> group.m_list,
                               reason |-> "no geocode result"]
                    /\ k \in ResultIdx =>
                          LET place == ResolvedReal[Cardinality({j \in ResultIdx : j <= k})]
                              result == call.result[1]
                          IN  /\ DOMAIN place = {"original_name", "normalized_name", "latitude",
                                                  "longitude", "mentions", "confidence",
                                                  "raw_geocode"}
                              /\ place.original_name = group.m_list[1].text
                              /\ place.mentions = group.m_list
                              /\ place.normalized_name =
                                    (IF "formatted_address" \in DOMAIN result
                                     THEN result.formatted_address ELSE group.key)
                              /\ place.confidence =
                                    ConfidenceOfTags(IF "types" \in DOMAIN result
                                                     THEN Range(result.types) ELSE {})
                              /\ place.raw_geocode = result
    /\ (geo_calls # <<>> /\ geo_calls[Len(geo_calls)].answered
           /\ geo_response.status # NoValue) =>
          LET last == geo_calls[Len(geo_calls)]
              answered_ok == /\ geo_response.status = "OK"
                             /\ geo_response.results # <<>>
          IN  /\ last.result = None <=> ~answered_ok
              /\ answered_ok => last.result = <<geo_response.results[1]>>

\* "Paris" resolved to a locality in France, "Oz" without a result after it,
\* and a third group resolved without a formatted name.
C7_Witness ==
    /\ ResolveReturned
    /\ Len(resolved.real) = 2
    /\ Len(resolved.fictional) = 1
    /\ resolved.real[1].original_name = Paris
    /\ resolved.real[1].normalized_name = ResultFrance.formatted_address
    /\ resolved.real[1].confidence = "high"
    /\ resolved.real[2].normalized_name = mentions[3].key
    /\ resolved.fictional[1].original_name = Oz
    /\ resolved.fictional[1].reason = "no geocode result"
    /\ geo_response.status = "OK"

\* C8: a geocoding request that fails (timeout, HTTP error status, malformed
\* response) never ends the run: the candidate becomes a FictionalPlace and
\* the Resolution Engine goes on to the next candidate.
C8_OracleFailureRecovered ==
    \A k \in 1..Len(geo_calls) :
        (geo_calls[k].stage = "resolve" /\ ~geo_calls[k].answered) =>
            /\ pc # "raised"
            /\ \E j \in 1..Len(ResolvedFictional) :
                  Lower(ResolvedFictional[j].original_name) = geo_calls[k].query

(***************************************************************************)
(* Aggregator properties                                                   *)
(***************************************************************************)
\* The first accepted Mention whose lower-cased text is `key`.
FirstSeen(key) == SetMin({k \in 1..Len(accepted) : Lower(accepted[k].text) = key})

\* Places (group, position) of the candidate mapping that hold Mention m.
PlacesOf(m) ==
    {gj \in (1..Len(mentions)) \X (1..MaxItems) :
        /\ gj[2] <= Len(mentions[gj[1]].m_list)
        /\ mentions[gj[1]].m_list[gj[2]] = m}

\* C11: every key of the candidate mapping is the lower-cased text of every
\* Mention of its group, every group has at least one Mention, every accepted
\* Mention is in exactly one group, the keys are in first-seen order, and the
\* first Mention of a group is the first one seen for the key, with its
\* literal text.
C11_AggregatorGrouping ==
    /\ \A g \in 1..Len(mentions) :
          /\ mentions[g].m_list # <<>>
          /\ \A j \in 1..Len(mentions[g].m_list) :
                Lower(mentions[g].m_list[j].text) = mentions[g].key
          /\ mentions[g].m_list[1] = accepted[FirstSeen(mentions[g].key)]
    /\ \A g, h \in 1..Len(mentions) :
          g < h => /\ mentions[g].key # mentions[h].key
                   /\ FirstSeen(mentions[g].key) < FirstSeen(mentions[h].key)
    /\ \A k \in 1..Len(accepted) : Cardinality(PlacesOf(accepted[k])) = 1
    /\ TotalMentions(mentions) = Len(accepted)

\* "Paris", "Oz", "paris": two groups, the first named "Paris".
C11_Witness ==
    /\ Len(mentions) = 2
    /\ mentions[1].key = paris
    /\ Len(mentions[1].m_list) = 2
    /\ mentions[1].m_list[1].text = Paris
    /\ mentions[1].m_list[2].text = paris
    /\ mentions[1].m_list[2].item = 3
    /\ mentions[2].key = Lower(Oz)

\* C12: with either backend the Mentions collected across all groups never
\* exceed a (positive) max_mentions, and none is accepted once the count has
\* reached it.
C12_MentionCap ==
    config.max_mentions >= 1 => TotalMentions(mentions) <= config.max_mentions

(***************************************************************************)
(* Outlier Reviewer properties                                             *)
(***************************************************************************)
ReviewReturned == IsLLM /\ pc \in {"write", "done"}

NoDuplicates(list) == \A i, j \in 1..Len(list) : list[i] = list[j] => i = j

\* C13: the outlier list of a run holds no name twice, and when the judge
\* returned a list of names it is, as a set, the union of the hard outliers
\* of reconciliation and the names the judge flagged.
C13_OutlierList ==
    ReviewReturned =>
        /\ NoDuplicates(outliers)
        /\ judge_reply.kind = "list" =>
              Range(outliers) = Range(hard_outliers) \cup Range(judge_reply.names)

\* What reconciliation handed to the review step.
ReconciledReal == IF dominant = <<>> THEN resolved.real ELSE reconciled
ReconciledFictional == IF dominant = <<>> THEN resolved.fictional ELSE updated_fictional

JudgeFailures == {"raised", "malformed", "unparseable"}

\* C14: after any failure of the judge (the call raises, the response is
\* malformed, the output cannot be parsed) the run goes on, the real and
\* fictional lists are those of reconciliation, and the outlier list is
\* exactly the hard outliers: none added, none lost.
C14_JudgeFailureDegrades ==
    (ReviewReturned /\ judge_reply.kind \in JudgeFailures) =>
        /\ error = NoValue
        /\ real_places = ReconciledReal
        /\ fictional_places = ReconciledFictional
        /\ Range(outliers) = Range(hard_outliers)

(***************************************************************************)
(* Run properties                                                          *)
(***************************************************************************)
\* C15: when a run ends with a configuration error (a missing geocoding or
\* LLM credential), no oracle has been called in it: no LLM extraction
\* request, no geocoding request, no judge call.
C15_ConfigErrorsFirst ==
    (pc = "raised" /\ error \in ConfigErrors) =>
        /\ llm_calls = 0
        /\ geo_calls = <<>>
        /\ judge_calls = 0

\* The geocoding requests of the Resolution Engine, answered or not.
ResolveIssued == SelectSeq(geo_calls, LAMBDA c : c.stage = "resolve")

\* One request per processed group, in group order, none repeated, each
\* issued while the two lists hold fewer than max_mentions records; at most
\* `bound` requests.
CapBeforeCall(bound) ==
    /\ \A k \in 1..Len(ResolveIssued) :
          /\ k <= Len(mentions)
          /\ ResolveIssued[k].query = mentions[k].key
          /\ ResolveIssued[k].held = k - 1
          /\ ResolveIssued[k].held < config.max_mentions
    /\ Len(ResolveIssued) <= bound

\* C16 as stated: the number of geocoding calls of the Resolution Engine is
\* at most min(number of groups, max_mentions).
C16_Original == CapBeforeCall(Min(Len(mentions), config.max_mentions))

\* C16 as amended: no geocoding call is issued in a state where
\* len(real) + len(fictional) >= max_mentions, exactly one is issued per
\* processed group and none is repeated, hence the stage makes at most
\* min(number of groups, max(0, max_mentions)) calls.
C16_CapBeforeCall == CapBeforeCall(Min(Len(mentions), Max(0, config.max_mentions)))

\* Three groups from the NER backend, a cap of two: two calls, then the break.
C16_Witness ==
    /\ pc = "done"
    /\ ~IsLLM
    /\ Len(mentions) = 3
    /\ config.max_mentions = 2
    /\ Len(ResolveIssued) = 2
    /\ Len(written.real) + Len(written.fictional) = 2

\* Input places that are in the output real list, and those demoted.
Replaced == {i \in OutlierIdx : Retries[OutlierRank(i)].result # None}
Demoted == OutlierIdx \ Replaced
Survivors == (1..Len(InReal)) \ Demoted
SurvivorRank(i) == Cardinality({j \in Survivors : j <= i})
DemotedRank(i) == Cardinality({j \in Demoted : j <= i})

\* C17: the output real list holds the surviving places in input order: a
\* place without a country or with the dominant one as the identical record,
\* a retried place at the position of the place it replaces; the demoted
\* places follow the input fictional places, in input order.
C17_ReconcileOrder ==
    ReconcileReturned =>
        /\ Len(real_places) = Cardinality(Survivors)
        /\ \A i \in Survivors :
              IF i \in Replaced
              THEN /\ real_places[SurvivorRank(i)].original_name = InReal[i].original_name
                   /\ real_places[SurvivorRank(i)].mentions = InReal[i].mentions
                   /\ real_places[SurvivorRank(i)].raw_geocode =
                         Retries[OutlierRank(i)].result[1]
              ELSE real_places[SurvivorRank(i)] = InReal[i]
        /\ Len(fictional_places) = Len(InFictional) + Cardinality(Demoted)
        /\ SubSeq(fictional_places, 1, Len(InFictional)) = InFictional
        /\ \A i \in Demoted :
              fictional_places[Len(InFictional) + DemotedRank(i)] =
                  [original_name |-> InReal[i].original_name,
                   mentions |-> InReal[i].mentions,
                   reason |-> "outlier_country_mismatch"]

\* Germany, France, Germany, France: the first French place is replaced
\* where it stood, the second is demoted to the end of the fictional list.
C17_Witness ==
    /\ pc = "done"
    /\ Len(InReal) = 4
    /\ OutlierIdx = {2, 4}
    /\ Replaced = {2}
    /\ Len(real_places) = 3
    /\ real_places[1] = InReal[1]
    /\ real_places[2] # InReal[2]
    /\ real_places[2].original_name = InReal[2].original_name
    /\ real_places[3] = InReal[3]
    /\ fictional_places # <<>>
    /\ fictional_places[Len(fictional_places)].original_name = InReal[4].original_name

\* C18: every completed run, whichever backend extracted the mentions, went
\* once through extraction, resolution, country reconciliation and outlier
\* review in this order, and the lists written and returned are those of
\* country reconciliation.
C18_StageOrder ==
    pc = "done" =>
        /\ stages = <<"extract", "resolve", "reconcile", "review", "write">>
        /\ written = [real |-> ReconciledReal, fictional |-> ReconciledFictional]
        /\ real_places = ReconciledReal
        /\ fictional_places = ReconciledFictional

\* C19: a run on empty text (with its credentials, and no unsupported
\* language asked for) does not raise, requests no window from the LLM,
\* yields an empty candidate mapping and empty lists, changes nothing in
\* reconciliation, calls neither the geocoder nor the judge, and returns an
\* empty outlier list.
C19_EmptyInput ==
    (text = <<>> /\ error \notin ConfigErrors /\ error # ProvidedUnsupported("fr")) =>
        /\ error = NoValue
        /\ Windows = <<>>
        /\ llm_calls = 0
        /\ mentions = <<>>
        /\ real_places = <<>> /\ fictional_places = <<>>
        /\ hard_outliers = <<>>
        /\ geo_calls = <<>>
        /\ judge_calls = 0
        /\ outliers = <<>>

(***************************************************************************)
(* Snapping                                                                *)
(***************************************************************************)
\* The hard end of the window at `start`, and the look-ahead region after it.
HardEnd == Min(Len(text), start + chunk_chars)
LookAhead == Slice(text, HardEnd, HardEnd + max_extra)

\* Paragraph breaks of a region: a newline, whitespace only, a newline.
ParagraphBreaks(region) ==
    {b \in (1..Len(region)) \X (1..Len(region)) :
        /\ b[1] < b[2]
        /\ region[b[1]] = NL
        /\ region[b[2]] = NL
        /\ \A k \in (b[1] + 1)..(b[2] - 1) : IsSpace(region[k])}

\* Sentence ends of a region: a terminator followed by a whitespace character.
SentenceEnds(region) ==
    {i \in 1..(Len(region) - 1) : IsTerminator(region[i]) /\ IsSpace(region[i + 1])}

\* C20 (Snapping): the end _snap_end returns for a window is chosen by fixed
\* precedence over the look-ahead region text[hard_end : hard_end + budget]:
\* the end of the first paragraph break there (the break that starts at the
\* first such newline, with all the whitespace up to its last newline), else
\* the end of the first sentence terminator followed by a whitespace
\* character, else the hard end; and always
\* hard_end <= end <= min(len(text), hard_end + budget), with
\* hard_end = min(len(text), start + window_size).  _chunk_text passes the
\* budget 300.
C20_Snapping ==
    seg_pc = "snapped" =>
        LET breaks == ParagraphBreaks(LookAhead)
            first == SetMin({b[1] : b \in breaks})
            sentences == SentenceEnds(LookAhead)
        IN  /\ snapped =
                   IF breaks # {}
                   THEN HardEnd + SetMax({b[2] : b \in {c \in breaks : c[1] = first}})
                   ELSE IF sentences # {} THEN HardEnd + SetMin(sentences) + 1
                   ELSE HardEnd
            /\ HardEnd <= snapped
            /\ snapped <= Min(Len(text), HardEnd + max_extra)

\* The budget cuts the region before a paragraph break of the text, and the
\* window snaps to the sentence end inside the region.
C20_Witness ==
    /\ seg_pc = "snapped"
    /\ max_extra < SnapMaxExtra
    /\ ParagraphBreaks(Slice(text, HardEnd, Len(text))) # {}
    /\ ParagraphBreaks(LookAhead) = {}
    /\ SentenceEnds(LookAhead) # {}
    /\ snapped > HardEnd
    /\ snapped < Len(text)

(***************************************************************************)
(* Country properties                                                      *)
(***************************************************************************)
\* The country label of the i-th input RealPlace, <<>> without one.
CountryOf(i) == _extract_country_from_geocode(InReal[i])
Labelled == {i \in 1..Len(InReal) : CountryOf(i) # <<>>}
CountOf(c) == Cardinality({i \in Labelled : CountryOf(i) = c})
FirstOf(c) == SetMin({i \in Labelled : CountryOf(i) = c})

\* _dominant_country has been applied to the list _mentions_to_places returned.
DominantComputed == IsLLM /\ pc \in {"reconcile_loop", "review", "write", "done"}

\* C21: every RealPlace of the list reconcile returns whose raw oracle
\* response carries a country label has the dominant country as that label.
C21_CountryConsistency ==
    ReconcileReturned =>
        \A i \in 1..Len(real_places) :
            \/ _extract_country_from_geocode(real_places[i]) = <<>>
            \/ _extract_country_from_geocode(real_places[i]) = dominant

\* C22: the dominant country is None when no RealPlace carries a label;
\* otherwise it is the label of a RealPlace, no label occurs more often, and
\* every label that occurs as often occurs first at a later place of the
\* list.
C22_DominantCountry ==
    DominantComputed =>
        IF Labelled = {} THEN dominant = <<>>
        ELSE /\ dominant # <<>>
             /\ \E i \in Labelled : CountryOf(i) = dominant
             /\ \A j \in Labelled : CountOf(CountryOf(j)) <= CountOf(dominant)
             /\ \A j \in Labelled :
                   (CountOf(CountryOf(j)) = CountOf(dominant) /\ CountryOf(j) # dominant)
                       => FirstOf(dominant) < FirstOf(CountryOf(j))

\* Germany, France, France, Germany: two labels tie, the first seen wins.
C22_Witness ==
    /\ DominantComputed
    /\ Len(InReal) = 4
    /\ CountryOf(1) = Germany
    /\ CountryOf(2) = France
    /\ CountryOf(3) = France
    /\ CountryOf(4) = Germany
    /\ dominant = Germany

(***************************************************************************)
(* Command properties                                                      *)
(***************************************************************************)
\* The entry point has returned normally and its command has gone on.
CommandWentOn ==
    /\ stages # <<>>
    /\ stages[Len(stages)] = "write"
    /\ pc # "done"

\* C23: whenever run_pipeline_llm returns normally, the run-llm command
\* reports the numbers of real and fictional places of the result and
\* finishes without error.
C23_CommandConsumesResult ==
    (IsLLM /\ CommandWentOn) =>
        /\ pc = "reported"
        /\ error = NoValue
        /\ reported = [real |-> Len(written.real), fictional |-> Len(written.fictional)]

====
